---- MODULE Spec2Model ----
(***************************************************************************)
(* State-machine model of the incident-reporting backend (src/main.py):    *)
(* the `incidencias` table, the upload area on disk, and the four request  *)
(* handlers create_incidencia, list_incidencias, update_incidencia_status  *)
(* and delete_incidencia, together with save_base64_file.                  *)
(*                                                                         *)
(* Conventions.                                                            *)
(*  - A Python string that the code splits, formats or parses is a tuple   *)
(*    of one-symbol strings; a data-URI is a tuple of lexical symbols      *)
(*    ("data", ":", "image/png", ";", "base64", ",", base64 characters).   *)
(*  - An Optional value is a tuple of length 0 (None) or 1 (the value).    *)
(*  - A decimal number is an integer count of tenths (19.4 is 194).        *)
(*  - str(uuid4()) is the ordinal of the draw: every draw is fresh.        *)
(*  - Every handler runs in one step (one request, one session, one        *)
(*    commit).                                                             *)
(***************************************************************************)
EXTENDS Integers, Sequences, FiniteSets

\* ------------------------------------------------------------------ bounds
\* uuid4() draws available to a run (report ids and file names).
MaxUuid == 4
\* Rows the table holds at a time.
MaxRows == 2
\* Midnights the server process lives through.
MaxTicks == 1

\* ------------------------------------------------------------ Python values
None == <<>>
Some(x) == <<x>>
IsNone(o) == o = <<>>
Val(o) == o[1]

\* A JSON value held by the `ubicacion` dict.
JInt(n) == [t |-> "int", n |-> n, s |-> <<>>]
JFloat(tenths) == [t |-> "float", n |-> tenths, s |-> <<>>]
JStr(chars) == [t |-> "str", n |-> 0, s |-> chars]

\* Python truth value of a JSON value: a number is true unless zero, a string
\* unless empty.
truthy(v) == IF v.t = "str" THEN v.s # <<>> ELSE v.n # 0

Digit == <<"0", "1", "2", "3", "4", "5", "6", "7", "8", "9">>

RECURSIVE nat_str(_)
\* str(n) for an int n >= 0: its decimal digits.
nat_str(n) == IF n < 10 THEN <<Digit[n + 1]>>
              ELSE nat_str(n \div 10) \o <<Digit[(n % 10) + 1]>>

\* str(n) for an int.
int_str(n) == IF n < 0 THEN <<"-">> \o nat_str(-n) ELSE nat_str(n)

\* str(x) for a float x with one decimal, given in tenths: "19.4", "-99.1", "0.0".
float_str(tenths) ==
    LET a == IF tenths < 0 THEN -tenths ELSE tenths
    IN  (IF tenths < 0 THEN <<"-">> ELSE <<>>)
        \o nat_str(a \div 10) \o <<".">> \o <<Digit[(a % 10) + 1]>>

\* str(v) as create_incidencia applies it to a coordinate.
py_str(v) == CASE v.t = "int" -> int_str(v.n)
               [] v.t = "float" -> float_str(v.n)
               [] OTHER -> v.s

DigitVal(c) == CHOOSE d \in 0..9 : Digit[d + 1] = c
IsDigit(c) == \E d \in 0..9 : Digit[d + 1] = c

RECURSIVE digits_val(_)
digits_val(s) == IF s = <<>> THEN 0
                 ELSE 10 * digits_val(SubSeq(s, 1, Len(s) - 1)) + DigitVal(s[Len(s)])

AllDigits(s) == \A i \in 1..Len(s) : IsDigit(s[i])

\* float(s) for a string over digits, "-", "." and letters, with at most one
\* fractional digit: [ok |-> FALSE] when Python raises ValueError, otherwise
\* the value in tenths.
py_float(s) ==
    LET neg == s # <<>> /\ s[1] = "-"
        body == IF neg THEN Tail(s) ELSE s
        dots == {i \in 1..Len(body) : body[i] = "."}
        ip == IF dots = {} THEN body
              ELSE SubSeq(body, 1, (CHOOSE i \in dots : TRUE) - 1)
        fp == IF dots = {} THEN <<>>
              ELSE SubSeq(body, (CHOOSE i \in dots : TRUE) + 1, Len(body))
        wellformed == /\ Cardinality(dots) <= 1
                      /\ AllDigits(ip) /\ AllDigits(fp)
                      /\ Len(ip) + Len(fp) >= 1
                      /\ Len(fp) <= 1
        mag == 10 * digits_val(ip) + digits_val(fp)
    IN  IF wellformed THEN [ok |-> TRUE, n |-> IF neg THEN -mag ELSE mag]
        ELSE [ok |-> FALSE, n |-> 0]

\* ---------------------------------------------------------------- splitting
\* Positions of the separator in a string.
sep_at(s, sep) == {i \in 1..Len(s) : s[i] = sep}

Min(S) == CHOOSE x \in S : \A y \in S : x <= y

RECURSIVE split(_, _)
\* str.split(sep): the list of pieces between separators.
split(s, sep) ==
    IF sep_at(s, sep) = {} THEN <<s>>
    ELSE LET i == Min(sep_at(s, sep))
         IN  <<SubSeq(s, 1, i - 1)>> \o split(SubSeq(s, i + 1, Len(s)), sep)

\* str.split(sep, 1): at most one split, at the first separator.
split1(s, sep) ==
    IF sep_at(s, sep) = {} THEN <<s>>
    ELSE LET i == Min(sep_at(s, sep))
         IN  <<SubSeq(s, 1, i - 1), SubSeq(s, i + 1, Len(s))>>

\* ------------------------------------------------------------------- base64
\* The base64 alphabet; a character's value is its position minus one.
B64Alphabet ==
    <<"A", "B", "C", "D", "E", "F", "G", "H", "I", "J", "K", "L", "M",
      "N", "O", "P", "Q", "R", "S", "T", "U", "V", "W", "X", "Y", "Z",
      "a", "b", "c", "d", "e", "f", "g", "h", "i", "j", "k", "l", "m",
      "n", "o", "p", "q", "r", "s", "t", "u", "v", "w", "x", "y", "z",
      "0", "1", "2", "3", "4", "5", "6", "7", "8", "9", "+", "/">>

IsB64(c) == \E i \in 1..Len(B64Alphabet) : B64Alphabet[i] = c
B64Val(c) == (CHOOSE i \in 1..Len(B64Alphabet) : B64Alphabet[i] = c) - 1

\* One character of the decoding loop of binascii.a2b_base64 (non-strict), in
\* state st: quad the data characters of the current quad read, left the
\* bits carried, pads the pad characters just seen, out the bytes so far,
\* done set once padding has completed the quad.  A character outside the
\* alphabet is skipped.
a2b_step(c, st) ==
    IF c = "="
    THEN IF st.quad >= 2 /\ st.quad + st.pads + 1 >= 4
         THEN [st EXCEPT !.done = TRUE]
         ELSE [st EXCEPT !.pads = IF st.quad >= 2 THEN @ + 1 ELSE @]
    ELSE IF ~IsB64(c) THEN st
    ELSE LET v == B64Val(c)
         IN  CASE st.quad = 0 ->
                    [st EXCEPT !.quad = 1, !.left = v, !.pads = 0]
               [] st.quad = 1 ->
                    [st EXCEPT !.quad = 2, !.left = v % 16, !.pads = 0,
                               !.out = Append(@, st.left * 4 + v \div 16)]
               [] st.quad = 2 ->
                    [st EXCEPT !.quad = 3, !.left = v % 4, !.pads = 0,
                               !.out = Append(@, st.left * 16 + v \div 4)]
               [] OTHER ->
                    [st EXCEPT !.quad = 0, !.left = 0, !.pads = 0,
                               !.out = Append(@, st.left * 64 + v)]

RECURSIVE a2b_base64(_, _)
\* The loop over the characters: it stops at completed padding, and input
\* that ends inside a quad raises binascii.Error (ok = FALSE).
a2b_base64(data, st) ==
    IF st.done THEN [ok |-> TRUE, bytes |-> st.out]
    ELSE IF data = <<>> THEN [ok |-> st.quad = 0, bytes |-> st.out]
    ELSE CHOOSE r \in {a2b_base64(Tail(data), next) :
                         next \in {a2b_step(Head(data), st)}} : TRUE

\* base64.b64decode(data), validate=False
b64decode(data) ==
    a2b_base64(data, [quad |-> 0, left |-> 0, pads |-> 0, out |-> <<>>,
                      done |-> FALSE])

\* mimetypes.guess_extension(mime_type): None for a type the table lacks.
guess_extension(mime_type) ==
    CASE mime_type = <<"image/png">> -> Some(".png")
      [] mime_type = <<"video/mp4">> -> Some(".mp4")
      [] mime_type = <<"audio/mpeg">> -> Some(".mp3")
      [] OTHER -> None

\* ------------------------------------------------------------ media decoder
\* uuid4(): a value no earlier draw returned.
uuid4(drawn) == drawn + 1

UPLOAD_DIR == <<".", "uploads">>

\* os.path.join(upload_dir, name)
path_join(dir, name) == Append(dir, name)
\* os.path.basename(path)
basename(path) == path[Len(path)]

\* The parsing half of save_base64_file, which reads only its argument:
\* ok = FALSE when the split at the first comma, the header's second
\* ":"-piece or the base64 decoding raises; otherwise the file extension
\* and the decoded bytes.
parse_base64_data(base64_data) ==
    LET parts == split1(base64_data, ",")
        header == parts[1]
        data == parts[2]
        hparts == split(header, ":")
        mime_type == split(hparts[2], ";")[1]
        guessed == guess_extension(mime_type)
        extension == IF IsNone(guessed) THEN ".bin" ELSE Val(guessed)
        decoded == b64decode(data)
        failed == [ok |-> FALSE, extension |-> "", file_data |-> <<>>]
    IN  IF Len(parts) # 2 THEN failed
        ELSE IF Len(hparts) < 2 THEN failed
        ELSE IF ~decoded.ok THEN failed
        ELSE [ok |-> TRUE, extension |-> extension, file_data |-> decoded.bytes]

DataUri(mime, body) == <<"data", ":", mime, ";", "base64", ",">> \o body

\* Embedded image strings: empty; no comma; no colon in the header; a body
\* that ends inside a quad; a body of characters outside the alphabet; a
\* well-formed PNG; a well-formed payload of a type mimetypes does not know.
ImagePayloads ==
    {<<>>,
     <<"data", ":", "image/png", ";", "base64", "Q", "Q", "=", "=">>,
     <<"image/png", ";", "base64", ",", "Q", "Q", "=", "=">>,
     DataUri("image/png", <<"Q", "Q">>),
     DataUri("image/png", <<"*">>),
     DataUri("image/png", <<"Q", "Q", "=", "=">>),
     DataUri("application/x-foo", <<"Q", "U", "J", "D">>)}

\* Embedded video strings: no comma; well-formed.
VideoPayloads ==
    {<<"data", ":", "video/mp4", ";", "base64", "Q", "g", "=", "=">>,
     DataUri("video/mp4", <<"Q", "g", "=", "=">>)}

\* Embedded audio strings: a body that ends inside a quad; well-formed.
AudioPayloads ==
    {DataUri("audio/mpeg", <<"Q", "w", "=">>),
     DataUri("audio/mpeg", <<"Q", "w", "=", "=">>)}

\* parse_base64_data tabulated over the strings submitted, so that it is
\* computed once per string.
parsed == [p \in ImagePayloads \cup VideoPayloads \cup AudioPayloads |->
             parse_base64_data(p)]

\* save_base64_file(base64_data, upload_dir), called when uuids draws of
\* uuid4() have been made.  ok = FALSE is the ValueError it raises; otherwise
\* file_path is the path written, file_data the bytes, and one uuid is drawn
\* (after the decoding, so a failed call draws none and writes nothing).
save_base64_file(base64_data, upload_dir, uuids) ==
    LET p == parsed[base64_data]
        file_name == [uuid |-> uuid4(uuids), ext |-> p.extension]
    IN  IF ~p.ok
        THEN [ok |-> FALSE, file_path |-> <<>>, file_data |-> <<>>,
              uuids |-> uuids]
        ELSE [ok |-> TRUE,
              file_path |-> path_join(upload_dir, file_name),
              file_data |-> p.file_data,
              uuids |-> uuids + 1]

\* ------------------------------------------------------------------- dates
\* A calendar date; the model stays inside one month.
Date(y, m, d) == [y |-> y, m |-> m, d |-> d]

\* The day the server process starts.
StartDate == Date(2024, 1, 1)

\* The day after.
next_day(date) == [date EXCEPT !.d = @ + 1]

\* A decimal field zero-padded to two digits.
two_digits(n) == IF n < 10 THEN <<"0">> \o nat_str(n) ELSE nat_str(n)

\* date.strftime('%Y-%m-%d')
strftime(date) ==
    nat_str(date.y) \o <<"-">> \o two_digits(date.m) \o <<"-">> \o two_digits(date.d)

\* ------------------------------------------------------------------- state
VARIABLES
    incidencias,   \* the rows of table `incidencias`
    files,         \* the files on disk: records [path, data]
    uuids,         \* the number of uuid4() draws made so far
    today,         \* the calendar date, date.today()
    last,          \* the last request handled and its response
    deleted        \* history: ids whose delete_incidencia returned 200

vars == <<incidencias, files, uuids, today, last, deleted>>

\* The default of IncidenciaCreate.fecha_emision: date.today() evaluated once,
\* when the class body runs at import.
fecha_emision_default == StartDate

\* The column default of Incidencia.status.
status_default == "pending"

\* ----------------------------------------------------------- request bodies
\* The `ubicacion` dict: each key is absent/null (None) or holds a JSON value.
Dict(lat, lng) == [lat |-> lat, lng |-> lng]
\* A dict is true in Python when it has a key.
dict_truthy(d) == ~IsNone(d.lat) \/ ~IsNone(d.lng)
\* dict.get(key) for a present, non-null key is its value, otherwise None.
dict_get(d, key) == IF key = "lat" THEN d.lat ELSE d.lng

\* `x if x else None` on an Optional JSON value.
opt_truthy(o) == ~IsNone(o) /\ truthy(Val(o))

\* A field of the request body that may be left out.
Omitted == [given |-> FALSE, v |-> None]
Given(v) == [given |-> TRUE, v |-> v]

\* IncidenciaCreate: the parsed body; an omitted fecha_emision takes the
\* class-level default, an explicit null stays None.
IncidenciaCreate(body) ==
    [id_usuario_emisor |-> body.id_usuario_emisor,
     id_catalogo |-> body.id_catalogo,
     subcategoria |-> body.subcategoria,
     asunto |-> body.asunto,
     descripcion |-> body.descripcion,
     fecha_emision |-> IF body.fecha_emision.given THEN body.fecha_emision.v
                       ELSE Some(fecha_emision_default),
     imagen |-> body.imagen,
     video |-> body.video,
     audio |-> body.audio,
     ubicacion |-> body.ubicacion]

\* The exchange recorded in `last`: the handler, what the request supplied
\* (the id of the path, the id_usuario of the query, the status of the body)
\* and the response (its code, the id a create returns, the views a listing
\* returns).
Exchange(op, code, id, query, views, status) ==
    [op |-> op, code |-> code, id_incidencia |-> id, id_usuario |-> query,
     views |-> views, status |-> status]

\* db.query(Incidencia).filter(Incidencia.id_incidencia == id).first()
first_by_id(rows, id) ==
    IF \E r \in rows : r.id_incidencia = id
    THEN Some(CHOOSE r \in rows : r.id_incidencia = id)
    ELSE None

\* ------------------------------------------------------- create_incidencia
\* Every media field saved under the image subdirectory.
media_dir_images(field) == "images"

\* The upload subdirectory of each media field.
media_dir(field) ==
    CASE field = "imagen" -> "images"
      [] field = "video" -> "videos"
      [] OTHER -> "audios"

\* `if incidencia.<field>:` on an Optional[str]: present and not empty.
str_truthy(o) == ~IsNone(o) /\ Val(o) # <<>>

\* One `if incidencia.<field>: nueva_incidencia.<field> = save_base64_file(..)`
\* statement, run in state st = [ok, files, uuids, ref]; once an earlier
\* statement has raised (ok = FALSE) the rest of the try block is skipped.
attach(payload, field, st) ==
    IF ~st.ok \/ ~str_truthy(payload) THEN [st EXCEPT !.ref = None]
    ELSE LET r == save_base64_file(Val(payload),
                                   path_join(UPLOAD_DIR, media_dir(field)),
                                   st.uuids)
         IN  IF r.ok
             THEN [ok |-> TRUE,
                   files |-> st.files \cup {[path |-> r.file_path,
                                             data |-> r.file_data]},
                   uuids |-> r.uuids,
                   ref |-> Some(r.file_path)]
             ELSE [st EXCEPT !.ok = FALSE, !.ref = None]

\* The coordinate column stored for a key of the location map.
stored_coordinate(ubicacion, key) ==
    LET c == IF ~IsNone(ubicacion) /\ dict_truthy(Val(ubicacion))
             THEN dict_get(Val(ubicacion), key) ELSE None
    IN  IF opt_truthy(c) THEN Some(py_str(Val(c))) ELSE None

\* db.add, db.commit, db.refresh and the return or the except branch, once
\* the media statements have run to state st with references imagen, video
\* and audio.  The INSERT draws the primary key and fails on a NULL
\* fecha_emision or on a primary key already in the table; a failure
\* anywhere in the try block rolls back and answers 400.
commit(incidencia, rows, imagen, video, audio, st) ==
    LET id == uuid4(st.uuids)
        inserted == /\ ~IsNone(incidencia.fecha_emision)
                    /\ IsNone(first_by_id(rows, id))
    IN  IF ~st.ok
        THEN [code |-> 400, uuids |-> st.uuids, rows |-> rows, id |-> 0]
        ELSE IF ~inserted
        THEN [code |-> 400, uuids |-> st.uuids + 1, rows |-> rows, id |-> 0]
        ELSE [code |-> 200, uuids |-> st.uuids + 1, id |-> id,
              rows |-> rows \cup
                 {[id_incidencia |-> id,
                   id_usuario_emisor |-> incidencia.id_usuario_emisor,
                   id_catalogo |-> incidencia.id_catalogo,
                   subcategoria |-> incidencia.subcategoria,
                   asunto |-> incidencia.asunto,
                   descripcion |-> incidencia.descripcion,
                   imagen |-> imagen,
                   video |-> video,
                   audio |-> audio,
                   fecha_emision |-> Val(incidencia.fecha_emision),
                   ubicacion_lat |-> stored_coordinate(incidencia.ubicacion, "lat"),
                   ubicacion_lng |-> stored_coordinate(incidencia.ubicacion, "lng"),
                   status |-> status_default]}]

\* POST /incidencias/.  The statements run in order, each on the state the
\* one before left (\E x \in {e} names the value e): the three media
\* statements, then the commit.  Files written before a later statement
\* fails stay on disk.
create_incidencia(body) ==
    \E incidencia \in {IncidenciaCreate(body)} :
    \E s1 \in {attach(incidencia.imagen, "imagen",
                      [ok |-> TRUE, files |-> files, uuids |-> uuids, ref |-> None])} :
    \E s2 \in {attach(incidencia.video, "video", s1)} :
    \E s3 \in {attach(incidencia.audio, "audio", s2)} :
    \E out \in {commit(incidencia, incidencias, s1.ref, s2.ref, s3.ref, s3)} :
        /\ out.uuids <= MaxUuid
        /\ Cardinality(incidencias) < MaxRows
        /\ incidencias' = out.rows
        /\ files' = s3.files
        /\ uuids' = out.uuids
        /\ last' = Exchange("create", out.code, out.id, None, {}, "")
        /\ UNCHANGED <<today, deleted>>

\* --------------------------------------------------------- list_incidencias
\* str(request.base_url)
base_url == "https://testserver/"

\* f"{base_url}uploads/{os.path.basename(ref)}" if ref else None
media_url(ref) ==
    IF IsNone(ref) THEN None
    ELSE Some([base |-> base_url, path |-> <<"uploads", basename(Val(ref))>>])

\* `inc.ubicacion_lat and inc.ubicacion_lng`: both columns hold a non-empty
\* string.
has_location(inc) == str_truthy(inc.ubicacion_lat) /\ str_truthy(inc.ubicacion_lng)

\* Building the view of a row raises ValueError when float() does.
view_raises(inc) ==
    /\ has_location(inc)
    /\ \/ ~py_float(Val(inc.ubicacion_lat)).ok
       \/ ~py_float(Val(inc.ubicacion_lng)).ok

\* IncidenciaResponse(...) for one row.
IncidenciaResponse(inc) ==
    [id_incidencia |-> inc.id_incidencia,
     id_usuario_emisor |-> inc.id_usuario_emisor,
     id_catalogo |-> inc.id_catalogo,
     subcategoria |-> inc.subcategoria,
     asunto |-> inc.asunto,
     descripcion |-> inc.descripcion,
     imagen |-> media_url(inc.imagen),
     video |-> media_url(inc.video),
     audio |-> media_url(inc.audio),
     fecha_emision |-> strftime(inc.fecha_emision),
     ubicacion |-> IF has_location(inc)
                   THEN Some([lat |-> py_float(Val(inc.ubicacion_lat)).n,
                              lng |-> py_float(Val(inc.ubicacion_lng)).n])
                   ELSE None,
     status |-> inc.status]

\* The rows the query selects: `if id_usuario:` adds the filter only for a
\* true (non-zero) integer; SQLite compares the TEXT column with the bound
\* integer as text.
query_rows(rows, id_usuario) ==
    IF ~IsNone(id_usuario) /\ Val(id_usuario) # 0
    THEN {r \in rows : r.id_usuario_emisor = int_str(Val(id_usuario))}
    ELSE rows

\* The response of either listing over the selected rows.
list_response(selected, id_usuario) ==
    IF \E inc \in selected : view_raises(inc)
    THEN Exchange("list", 500, 0, id_usuario, {}, "")
    ELSE Exchange("list", 200, 0, id_usuario,
                  {IncidenciaResponse(inc) : inc \in selected}, "")

\* GET /incidencias/ as first registered: no filter, every row.  The router
\* tries routes in registration order, so this is the handler a GET reaches.
list_incidencias_all ==
    /\ last' = list_response(incidencias, None)
    /\ UNCHANGED <<incidencias, files, uuids, today, deleted>>

\* list_incidencias as the module finally binds the name (the second
\* definition): the optional id_usuario filter.
list_incidencias(id_usuario) ==
    LET selected == query_rows(incidencias, id_usuario)
    IN  /\ last' = list_response(selected, id_usuario)
        /\ UNCHANGED <<incidencias, files, uuids, today, deleted>>

\* ------------------------------------------------- update_incidencia_status
\* A status update whose query lost its filter on the id.
rows_after_update_all(rows, id, status) == {[r EXCEPT !.status = status] : r \in rows}

\* incidencia.status = estado_update.status; db.commit()
rows_after_update(rows, id, status) ==
    {IF r.id_incidencia = id THEN [r EXCEPT !.status = status] ELSE r : r \in rows}

\* PATCH /incidencias/{id_incidencia}/estado
update_incidencia_status(id_incidencia, status) ==
    /\ IF IsNone(first_by_id(incidencias, id_incidencia))
       THEN /\ last' = Exchange("update", 404, id_incidencia, None, {}, status)
            /\ UNCHANGED incidencias
       ELSE /\ incidencias' = rows_after_update(incidencias, id_incidencia, status)
            /\ last' = Exchange("update", 200, id_incidencia, None, {}, status)
    /\ UNCHANGED <<files, uuids, today, deleted>>

\* -------------------------------------------------------- delete_incidencia
\* A delete that is never committed.
rows_after_delete_uncommitted(rows, id) == rows

\* db.delete(incidencia); db.commit()
rows_after_delete(rows, id) == {r \in rows : r.id_incidencia # id}

\* DELETE /incidencias/{id_incidencia}
delete_incidencia(id_incidencia) ==
    /\ IF IsNone(first_by_id(incidencias, id_incidencia))
       THEN /\ last' = Exchange("delete", 404, id_incidencia, None, {}, "")
            /\ UNCHANGED <<incidencias, deleted>>
       ELSE /\ incidencias' = rows_after_delete(incidencias, id_incidencia)
            /\ deleted' = deleted \cup {id_incidencia}
            /\ last' = Exchange("delete", 200, id_incidencia, None, {}, "")
    /\ UNCHANGED <<files, uuids, today>>

\* -------------------------------------------------------------- environment
\* Midnight passes while the process keeps running.
Tick ==
    /\ today.d < StartDate.d + MaxTicks
    /\ today' = next_day(today)
    /\ UNCHANGED <<incidencias, files, uuids, last, deleted>>

\* ------------------------------------------------------------------ inputs
\* Reporter ids (strings).
Reporters == {<<"0">>, <<"1">>}

\* Values of the id_usuario query parameter (Optional[int]).
Filters == {None, Some(0), Some(1)}

\* Values of EstadoUpdate.status.
Statuses == {"", "resolved"}

\* Path parameters: every id a run can draw, drawn or not.
Ids == 1..MaxUuid

Opt(S) == {None} \cup {Some(p) : p \in S}

\* Location maps: none; empty; the spec's example; integers; lat only; lng
\* only; a zero latitude; strings that are not numbers.
Locations ==
    {None,
     Some(Dict(None, None)),
     Some(Dict(Some(JFloat(194)), Some(JFloat(-991)))),
     Some(Dict(Some(JInt(19)), Some(JInt(-99)))),
     Some(Dict(Some(JFloat(194)), None)),
     Some(Dict(None, Some(JFloat(-991)))),
     Some(Dict(Some(JInt(0)), Some(JFloat(-991)))),
     Some(Dict(Some(JStr(<<"a", "b", "c">>)), Some(JStr(<<"x">>))))}

\* fecha_emision of a draft: left out, null, or a date.
Fechas == {Omitted, Given(None), Given(Some(Date(2023, 12, 24)))}

Body(u, f, i, v, a, loc) ==
    [id_usuario_emisor |-> u, id_catalogo |-> "c1", subcategoria |-> "s1",
     asunto |-> "broken light", descripcion |-> "...",
     fecha_emision |-> f, imagen |-> i, video |-> v, audio |-> a,
     ubicacion |-> loc]

GoodImage == Some(DataUri("image/png", <<"Q", "Q", "=", "=">>))
NoCommaImage == Some(<<"data", ":", "image/png", ";", "base64", "Q", "Q", "=", "=">>)

\* Drafts without attachments for each reporter, and one draft with a date,
\* an image and a location.
Drafts ==
    {Body(u, Omitted, None, None, None, None) : u \in Reporters}
    \cup {Body(<<"1">>, Given(Some(Date(2023, 12, 24))), GoodImage, None, None,
               Some(Dict(Some(JFloat(194)), Some(JFloat(-991)))))}

\* Drafts over every combination of the three media fields.
DecoderDrafts ==
    {Body(<<"1">>, Omitted, i, v, a, None) : i \in Opt(ImagePayloads),
                                             v \in Opt(VideoPayloads),
                                             a \in Opt(AudioPayloads)}

\* Drafts whose media fields are absent, well-formed or undecodable.
MediaDrafts ==
    {Body(<<"1">>, Omitted, i, v, a, None) : i \in {None, GoodImage, NoCommaImage},
                                             v \in Opt(VideoPayloads),
                                             a \in Opt(AudioPayloads)}

\* Drafts over every location map.
LocationDrafts == {Body(<<"1">>, Omitted, None, None, None, loc) : loc \in Locations}

\* Drafts over every kind of date.
DateDrafts == {Body(<<"1">>, f, None, None, None, None) : f \in Fechas}

\* ------------------------------------------------------------ specification
Init ==
    /\ incidencias = {}
    /\ files = {}
    /\ uuids = 0
    /\ today = StartDate
    /\ last = Exchange("none", 0, 0, None, {}, "")
    /\ deleted = {}

\* The requests clients make, with drafts, filters and statuses from the
\* given sets.
Requests(drafts, filters, statuses) ==
    \/ \E body \in drafts : create_incidencia(body)
    \/ list_incidencias_all
    \/ \E id_usuario \in filters : list_incidencias(id_usuario)
    \/ \E id \in Ids, status \in statuses : update_incidencia_status(id, status)
    \/ \E id \in Ids : delete_incidencia(id)

Next == Requests(Drafts, Filters, Statuses)

\* The server under clients that file, list by reporter, relabel and delete.
Spec == Init /\ [][Next]_vars

NextDecoder == Requests(DecoderDrafts, {None}, {"resolved"})

\* The server under clients that attach every kind of media string.
SpecDecoder == Init /\ [][NextDecoder]_vars

NextMedia == Requests(MediaDrafts, {None}, {"resolved"})

\* The server under clients that attach media.
SpecMedia == Init /\ [][NextMedia]_vars

NextLocation == Requests(LocationDrafts, {None}, {"resolved"})

\* The server under clients that send every kind of location map.
SpecLocation == Init /\ [][NextLocation]_vars

NextDate == Requests(DateDrafts, {None}, {"resolved"}) \/ Tick

\* The server under clients that send or omit the date, across midnight.
SpecDate == Init /\ [][NextDate]_vars

\* ================================================================== claims
\* The row stored under an id.
row_of(rows, id) == CHOOSE r \in rows : r.id_incidencia = id
has_row(rows, id) == \E r \in rows : r.id_incidencia = id

\* The columns of a report other than its status.
OtherColumns ==
    {"id_incidencia", "id_usuario_emisor", "id_catalogo", "subcategoria",
     "asunto", "descripcion", "imagen", "video", "audio", "fecha_emision",
     "ubicacion_lat", "ubicacion_lng"}

\* A string of the shape data:<mime-type>;base64,<payload> whose payload is
\* base64: alphabet characters in quads, the last quad padded with at most
\* two "=".
IsBase64Text(body) ==
    /\ Len(body) % 4 = 0
    /\ \A i \in 1..Len(body) :
          \/ IsB64(body[i])
          \/ body[i] = "=" /\ i > Len(body) - 2
                           /\ \A j \in i..Len(body) : body[j] = "="

WellFormedDataUri(p) ==
    /\ Len(p) >= 6
    /\ p[1] = "data" /\ p[2] = ":" /\ p[4] = ";" /\ p[5] = "base64" /\ p[6] = ","
    /\ p[3] \notin {"data", ":", ";", "base64", ",", "="}
    /\ IsBase64Text(SubSeq(p, 7, Len(p)))

\* A media field that holds a non-empty string which is not a well-formed
\* data URI.
Malformed(o) == ~IsNone(o) /\ Val(o) # <<>> /\ ~WellFormedDataUri(Val(o))

\* C1: submit is all-or-nothing: a draft with a malformed image, video or
\* audio string, whatever the other two hold, ends in 400 and leaves the
\* stored reports exactly as they were.
C1_MalformedMediaRejected ==
    [][\A body \in DecoderDrafts :
          (/\ Malformed(body.imagen) \/ Malformed(body.video) \/ Malformed(body.audio)
           /\ create_incidencia(body))
          => (last'.code = 400 /\ incidencias' = incidencias)]_vars

\* C2: update_incidencia_status on a stored id answers 200 and changes the
\* status of that report and nothing else: its other columns and all other
\* reports stay as they were; on an id not stored it answers 404 and the
\* table is unchanged.
C2_UpdateChangesOnlyStatus ==
    [][\A id \in Ids, status \in Statuses :
          update_incidencia_status(id, status) =>
             IF has_row(incidencias, id)
             THEN /\ last'.code = 200
                  /\ has_row(incidencias', id)
                  /\ row_of(incidencias', id).status = status
                  /\ \A c \in OtherColumns :
                        row_of(incidencias', id)[c] = row_of(incidencias, id)[c]
                  /\ {r \in incidencias' : r.id_incidencia # id}
                        = {r \in incidencias : r.id_incidencia # id}
                  /\ Cardinality(incidencias') = Cardinality(incidencias)
             ELSE /\ last'.code = 404
                  /\ incidencias' = incidencias]_vars

\* C2 witness: an update answered 200 on a report that carries an image and
\* a location, while another report is stored.
C2_Witness ==
    /\ last.op = "update" /\ last.code = 200
    /\ has_row(incidencias, last.id_incidencia)
    /\ row_of(incidencias, last.id_incidencia).status = "resolved"
    /\ ~IsNone(row_of(incidencias, last.id_incidencia).imagen)
    /\ ~IsNone(row_of(incidencias, last.id_incidencia).ubicacion_lat)
    /\ \E r \in incidencias : r.id_incidencia # last.id_incidencia
                              /\ r.status = "pending"

\* C3: a successful delete_incidencia removes that report and no other; from
\* then on no report with that id is stored, no listing (filtered or not)
\* shows it, and every delete or status update on it answers 404.
C3_DeletedStaysGone ==
    [][/\ \A id \in Ids :
             (has_row(incidencias, id) /\ delete_incidencia(id)) =>
                /\ last'.code = 200
                /\ ~has_row(incidencias', id)
                /\ {r \in incidencias' : r.id_incidencia # id}
                      = {r \in incidencias : r.id_incidencia # id}
       /\ \A id \in deleted :
             /\ ~has_row(incidencias', id)
             /\ last'.op = "list" => \A v \in last'.views : v.id_incidencia # id
             /\ delete_incidencia(id) => last'.code = 404
             /\ \A status \in Statuses :
                   update_incidencia_status(id, status) => last'.code = 404]_vars

\* C3 witness: a request on a deleted id was answered 404 while reports
\* filed before and after the deletion are stored.
C3_Witness ==
    /\ last.op \in {"delete", "update"} /\ last.code = 404
    /\ last.id_incidencia \in deleted
    /\ \E r \in incidencias : r.id_incidencia < last.id_incidencia
    /\ \E r \in incidencias : r.id_incidencia > last.id_incidencia

\* C4: list_incidencias with a filter value returns exactly the stored
\* reports whose reporter id is that value, and without a filter returns
\* every stored report.
C4_FilterExact ==
    last.op = "list" =>
       /\ last.code = 200
       /\ {v.id_incidencia : v \in last.views}
             = {r.id_incidencia :
                  r \in {x \in incidencias :
                           \/ IsNone(last.id_usuario)
                           \/ x.id_usuario_emisor = int_str(Val(last.id_usuario))}}

\* The number a JSON coordinate denotes, in tenths.
tenths(v) == IF v.t = "int" THEN 10 * v.n ELSE v.n
IsNumber(o) == ~IsNone(o) /\ Val(o).t \in {"int", "float"}

\* C5: after a successful create of a draft whose location map supplies
\* numeric lat and lng, the listed view of the new report has that location
\* and status "pending".
C5_LocationRoundTrip ==
    [][\A body \in LocationDrafts :
          (/\ ~IsNone(body.ubicacion)
           /\ IsNumber(Val(body.ubicacion).lat) /\ IsNumber(Val(body.ubicacion).lng)
           /\ create_incidencia(body)
           /\ last'.code = 200)
          => LET r == row_of(incidencias', last'.id_incidencia)
             IN  /\ ~view_raises(r)
                 /\ IncidenciaResponse(r).status = "pending"
                 /\ IncidenciaResponse(r).ubicacion
                       = Some([lat |-> tenths(Val(Val(body.ubicacion).lat)),
                               lng |-> tenths(Val(Val(body.ubicacion).lng))])]_vars

\* C6: a report filed without a date is stored with the date of the day it
\* is processed, on whatever day of the process's life that is.
C6_DefaultDateIsProcessingDay ==
    [][\A body \in DateDrafts :
          (/\ ~body.fecha_emision.given
           /\ create_incidencia(body)
           /\ last'.code = 200)
          => row_of(incidencias', last'.id_incidencia).fecha_emision = today]_vars

\* C7: every stored report has a non-empty status.
C7_StatusNeverEmpty == \A r \in incidencias : r.status # ""

\* C8: every stored report has lat and lng both present or both absent.
C8_LatLngTogether ==
    \A r \in incidencias : IsNone(r.ubicacion_lat) <=> IsNone(r.ubicacion_lng)

\* The subdirectory of the upload area for each kind of media.
CategoryDir == [imagen |-> "images", video |-> "videos", audio |-> "audios"]

\* C9: every non-null image, video or audio reference of a stored report
\* names a file on disk, in the upload area's subdirectory of its category.
C9_MediaRefsResolve ==
    \A r \in incidencias : \A c \in {"imagen", "video", "audio"} :
        ~IsNone(r[c]) =>
           /\ \E f \in files : f.path = Val(r[c])
           /\ SubSeq(Val(r[c]), 1, Len(Val(r[c])) - 1)
                 = <<".", "uploads", CategoryDir[c]>>

\* C9 witness: a report with all three references is stored and a later
\* submission has failed.
C9_Witness ==
    /\ last.op = "create" /\ last.code = 400
    /\ \E r \in incidencias :
          ~IsNone(r.imagen) /\ ~IsNone(r.video) /\ ~IsNone(r.audio)

\* C10: a listing always answers with a view of every stored report; the
\* view has a location exactly when both stored coordinates are present and
\* parse as numbers, and a coordinate that does not parse never makes the
\* listing fail.
C10_ListingNeverFails ==
    last.op = "list" =>
       /\ last.code = 200
       /\ \A r \in incidencias :
             \E v \in last.views :
                /\ v.id_incidencia = r.id_incidencia
                /\ ~IsNone(v.ubicacion)
                      <=> (/\ ~IsNone(r.ubicacion_lat) /\ ~IsNone(r.ubicacion_lng)
                           /\ py_float(Val(r.ubicacion_lat)).ok
                           /\ py_float(Val(r.ubicacion_lng)).ok)

====
